---- MODULE Spec2Model ----
(***************************************************************************)
(* Model of the kanji drill generator (src/src/App.tsx).                   *)
(*                                                                         *)
(* A text is a sequence of UTF-16 code units.  The App component keeps     *)
(* inputText, kanjiSizeMm, removeDuplicates, sortOrder, strokeCache and    *)
(* sortedKanjiLines as React state.  An effect runs processKanji whenever  *)
(* inputText, removeDuplicates, sortOrder or strokeCache changes; a run    *)
(* that needs stroke counts stays in flight until all of its lookups have  *)
(* completed.  Rendering calls createDrillLayout on sortedKanjiLines and   *)
(* kanjiSizeMm.                                                            *)
(*                                                                         *)
(* Five specifications share the definitions:                             *)
(*   Spec        the reactive pipeline with stroke-count lookups in flight *)
(*   SpecPure    the pipeline on a wide set of texts, modes without lookup *)
(*   SpecSort    one run of the effect on any short text, in any mode      *)
(*   SpecLayout  createDrillLayout, loop iteration by loop iteration, on   *)
(*               any Document and any cell size the state can hold         *)
(*   SpecCells   the KanjiDisplay instances of the committed layout and    *)
(*               their illustration fetches                                *)
(* The layout variables follow createDrillLayout in SpecLayout and         *)
(* SpecCells only, the KanjiDisplay instances in SpecCells only.           *)
(***************************************************************************)
EXTENDS Integers, Sequences, FiniteSets, TLC

VARIABLES
    inputText,         \* useState inputText: sequence of code units
    kanjiSizeMm,       \* useState kanjiSizeMm: a JS number
    removeDuplicates,  \* useState removeDuplicates
    sortOrder,         \* useState sortOrder
    strokeCache,       \* useState strokeCache: Map kanji -> count
    sortedKanjiLines,  \* useState sortedKanjiLines: the displayed Document
    runs,              \* processKanji invocations awaiting lookups, in start order
    finished,          \* history: runs that completed in the last step
    requested,         \* history: characters for which a lookup has completed
    changes,           \* history: how many changes the user has made
    pc,                \* createDrillLayout: "layout" while looping, "done" after return
    lineIndex,         \* createDrillLayout: forEach index (1-based)
    i,                 \* createDrillLayout: loop variable i, a JS number
    globalIndex,       \* createDrillLayout: globalIndex
    rows,              \* createDrillLayout: rows
    cells,             \* the mounted KanjiDisplay instances, by position in the tree
    orphans            \* fetches in flight (character, showNumbers) of unmounted instances

vars == <<inputText, kanjiSizeMm, removeDuplicates, sortOrder, strokeCache,
          sortedKanjiLines, runs, finished, requested, changes,
          pc, lineIndex, i, globalIndex, rows, cells, orphans>>

pipelineVars == <<inputText, removeDuplicates, sortOrder, strokeCache,
                  sortedKanjiLines, runs, finished, requested>>

layoutVars == <<pc, lineIndex, i, globalIndex, rows>>

displayVars == <<cells, orphans>>

----
\* Bounds of the model.

\* longest text of SpecPure
MaxTextLen == 4
\* longest text of SpecLayout
MaxLayoutLen == 5
\* longest text of SpecSort
MaxSortLen == 3
\* changes the user makes in Spec, starting from any persisted settings
MaxChanges == 1
\* iterations of the loop of createDrillLayout followed beyond the length of
\* the Line (a loop that advances needs none)
MaxSpin == 1
\* code units of the text whose cells are followed
MaxCellLen == 2

----
\* Program constants.

\* code unit of "\n"
LineFeed == 10
\* /[一-龯㐀-䶿]/g
CjkLo == 19968
CjkHi == 40879
ExtALo == 13312
ExtAHi == 19903
\* Math.floor(190 / kanjiSizeMm)
PrintableWidthMm == 190
\* parseInt(saved, 10) : 20
DefaultSizeMm == 20
\* return 10; // default
DefaultStrokeCount == 10

SortOrders == {"none", "stroke-asc", "stroke-desc", "unicode-asc", "unicode-desc"}

----
\* Sequences.

RECURSIVE Flatten(_)
Flatten(ss) == IF ss = <<>> THEN <<>> ELSE Head(ss) \o Flatten(Tail(ss))

Range(s) == {s[k] : k \in 1..Len(s)}

SeqsUpTo(S, n) == UNION {[1..k -> S] : k \in 0..n}

Reverse(s) == [k \in 1..Len(s) |-> s[Len(s) + 1 - k]]

----
\* Character Extractor.

\* kanjiRegex: one code unit matches the character class
kanjiRegexWholeBlock(c) == (c >= CjkLo /\ c <= 40959) \/ (c >= ExtALo /\ c <= ExtAHi)
kanjiRegex(c) == (c >= CjkLo /\ c <= CjkHi) \/ (c >= ExtALo /\ c <= ExtAHi)

\* text.split('\n'): always at least one element
RECURSIVE split(_)
split(text) ==
    IF \A k \in 1..Len(text) : text[k] # LineFeed
    THEN <<text>>
    ELSE LET k == CHOOSE k \in 1..Len(text) :
                    /\ text[k] = LineFeed
                    /\ \A j \in 1..(k - 1) : text[j] # LineFeed
         IN  <<SubSeq(text, 1, k - 1)>> \o split(SubSeq(text, k + 1, Len(text)))

\* line.match(kanjiRegex): the matches in order (null, no match, is mapped to [])
match(line) == SelectSeq(line, kanjiRegex)

\* [...new Set(matches)]: insertion order, first occurrence kept
RECURSIVE uniqKeepLast(_)
uniqKeepLast(s) ==
    IF s = <<>> THEN <<>>
    ELSE IF Head(s) \in Range(Tail(s)) THEN uniqKeepLast(Tail(s))
    ELSE <<Head(s)>> \o uniqKeepLast(Tail(s))

RECURSIVE uniq(_)
uniq(s) ==
    IF s = <<>> THEN <<>>
    ELSE LET init == uniq(SubSeq(s, 1, Len(s) - 1))
             last == s[Len(s)]
         IN  IF last \in Range(init) THEN init ELSE Append(init, last)

nonEmpty(line) == Len(line) > 0

extractLine(line, dedupe) ==
    LET matches == match(line)
    IN  IF matches = <<>> THEN <<>>
        ELSE IF dedupe THEN uniq(matches)
        ELSE matches

extractKanjiByLines(text, dedupe) ==
    LET lines == split(text)
        mapped == [k \in 1..Len(lines) |-> extractLine(lines[k], dedupe)]
    IN  SelectSeq(mapped, nonEmpty)

----
\* Orderer.

\* the comparator passed to Array.prototype.sort, on the sort keys
compareSwapped(order, a, b) ==
    IF order \in {"stroke-asc", "unicode-desc"} THEN a - b ELSE b - a
compare(order, a, b) ==
    IF order \in {"stroke-asc", "unicode-asc"} THEN a - b ELSE b - a

\* Array.prototype.sort is stable: an item goes before the first item that
\* compares greater, and after every item that compares equal
RECURSIVE insert(_, _, _)
insert(sorted, x, order) ==
    IF sorted = <<>> THEN <<x>>
    ELSE IF compare(order, x.key, Head(sorted).key) < 0
         THEN <<x>> \o sorted
         ELSE <<Head(sorted)>> \o insert(Tail(sorted), x, order)

RECURSIVE sort(_, _)
sort(items, order) ==
    IF items = <<>> THEN <<>>
    ELSE insert(sort(SubSeq(items, 1, Len(items) - 1), order),
                items[Len(items)], order)

\* one Line sorted by the given keys (kanjiWithStrokes / kanjiWithUnicode)
sortLine(lineKanji, keys, order) ==
    LET items == [k \in 1..Len(lineKanji) |-> [kanji |-> lineKanji[k], key |-> keys[k]]]
        sorted == sort(items, order)
    IN  [k \in 1..Len(sorted) |-> sorted[k].kanji]

\* kanji.charCodeAt(0)
unicodeKeys(lineKanji) == lineKanji

----
\* The stroke-count lookup and the cache.

\* strokes.length of the KanjiVG file of a character the model uses:
\* U+4E00 has 1 stroke, U+6728 has 4, U+6F22 has 13
strokesInKanjiVG(kanji) ==
    CASE kanji = 19968 -> 1
      [] kanji = 26408 -> 4
      [] kanji = 28450 -> 13
      [] OTHER -> 0

\* getStrokeCountFromKanjiVG: the path count, or the default when the fetch
\* fails, the response is not OK (KanjiVG has no file) or the body is empty
getStrokeCountNoDefault(kanji, ok) ==
    IF ok THEN strokesInKanjiVG(kanji) ELSE 0
getStrokeCountFromKanjiVG(kanji, ok) ==
    IF ok /\ strokesInKanjiVG(kanji) > 0 THEN strokesInKanjiVG(kanji)
    ELSE DefaultStrokeCount

\* prev => new Map(prev.set(kanji, strokeCount)): a functional update, applied
\* to the latest state of the cache
cacheReplace(prev, kanji, strokeCount) == [c \in {kanji} |-> strokeCount]
cacheSet(prev, kanji, strokeCount) ==
    [c \in DOMAIN prev \cup {kanji} |-> IF c = kanji THEN strokeCount ELSE prev[c]]

EmptyCache == [c \in {} |-> 0]

----
\* processKanji: one run of the effect.

isStroke(order) == order \in {"stroke-asc", "stroke-desc"}
isUnicode(order) == order \in {"unicode-asc", "unicode-desc"}

\* processKanji up to the first await that suspends: the Document is
\* extracted, and in a stroke mode every occurrence of a character reads the
\* cache of the render the run belongs to and issues a lookup on a miss
startRun(text, dedupe, order, cache) ==
    LET raw == extractKanjiByLines(text, dedupe)
    IN  [order |-> order,
         lines |-> raw,
         counts |-> [l \in 1..Len(raw) |-> [p \in 1..Len(raw[l]) |->
                        IF isStroke(order) /\ raw[l][p] \in DOMAIN cache
                        THEN cache[raw[l][p]] ELSE 0]],
         pending |-> IF isStroke(order)
                     THEN {lp \in (1..Len(raw)) \X (1..Len(text)) :
                              /\ lp[2] <= Len(raw[lp[1]])
                              /\ raw[lp[1]][lp[2]] \notin DOMAIN cache}
                     ELSE {},
         failed |-> {},
         overtaken |-> FALSE]

\* history: a run has written sortedKanjiLines; the runs in flight that were
\* started before it are marked
overtake(earlier) ==
    [k \in 1..Len(earlier) |-> [earlier[k] EXCEPT !.overtaken = TRUE]]

\* sortKanji once every lookup of the run has completed
sortKanji(run) ==
    IF run.order = "none" THEN run.lines
    ELSE [l \in 1..Len(run.lines) |->
            IF isStroke(run.order)
            THEN sortLine(run.lines[l], run.counts[l], run.order)
            ELSE IF isUnicode(run.order)
            THEN sortLine(run.lines[l], unicodeKeys(run.lines[l]), run.order)
            ELSE run.lines[l]]

\* the effect [inputText, removeDuplicates, sortOrder, strokeCache]: a new run
\* on the state of this render; a run with nothing to await completes in the
\* same step and writes sortedKanjiLines
effect(text, dedupe, order, cache, displayed, inFlight, done) ==
    LET run == startRun(text, dedupe, order, cache)
    IN  IF run.pending = {}
        THEN [displayed |-> sortKanji(run), runs |-> overtake(inFlight),
              finished |-> Append(done, run)]
        ELSE [displayed |-> displayed, runs |-> Append(inFlight, run),
              finished |-> done]

\* strokeCache is in the dependency list and every cache write installs a new
\* Map: the effect runs again after each lookup
rerunSkipped(text, dedupe, order, cache, displayed, inFlight, done) ==
    [displayed |-> displayed, runs |-> inFlight, finished |-> done]
rerun(text, dedupe, order, cache, displayed, inFlight, done) ==
    effect(text, dedupe, order, cache, displayed, inFlight, done)

----
\* JS numbers that kanjiSizeMm, maxKanjiPerRow and the loop variable can hold.

Num(n) == [k |-> "num", v |-> n]
NaN == [k |-> "nan", v |-> 0]
Infinity == [k |-> "inf", v |-> 0]

\* Math.floor(190 / kanjiSizeMm)
maxKanjiPerRow(sizeMm) ==
    IF sizeMm.k # "num" THEN NaN
    ELSE IF sizeMm.v = 0 THEN Infinity
    ELSE IF sizeMm.v > 0 THEN Num(PrintableWidthMm \div sizeMm.v)
    ELSE Num(0 - ((PrintableWidthMm - sizeMm.v - 1) \div (0 - sizeMm.v)))

\* i + maxKanjiPerRow, i a finite number or what an earlier addition left
add(a, b) ==
    IF a.k = "nan" \/ b.k = "nan" THEN NaN
    ELSE IF a.k = "inf" \/ b.k = "inf" THEN Infinity
    ELSE Num(a.v + b.v)

\* i < lineKanji.length
lessThan(a, len) == a.k = "num" /\ a.v < len

\* the relative index of Array.prototype.slice
relativeIndex(a, len) ==
    IF a.k = "nan" THEN 0
    ELSE IF a.k = "inf" THEN len
    ELSE IF a.v < 0 THEN (IF len + a.v > 0 THEN len + a.v ELSE 0)
    ELSE IF a.v < len THEN a.v ELSE len

\* lineKanji.slice(start, end)
slice(lineKanji, start, end) ==
    LET from == relativeIndex(start, Len(lineKanji))
        to == relativeIndex(end, Len(lineKanji))
    IN  IF from < to THEN SubSeq(lineKanji, from + 1, to) ELSE <<>>

----
\* Page Layout Engine.

\* a <KanjiDisplay key=... kanji=... showNumbers=... />
KanjiDisplayKeyedByIndex(kanji, index, showNumbers) ==
    [kanji |-> kanji, showNumbers |-> showNumbers,
     key |-> <<index, IF showNumbers THEN "numbered" ELSE "plain">>]
KanjiDisplay(kanji, index, showNumbers) ==
    [kanji |-> kanji, showNumbers |-> showNumbers,
     key |-> <<kanji, index, IF showNumbers THEN "numbered" ELSE "plain">>]

\* kanjiInRow.map(...) for the numbered or the plain row
rowOf(kanjiInRow, base, showNumbers) ==
    [k \in 1..Len(kanjiInRow) |-> KanjiDisplay(kanjiInRow[k], base + k - 1, showNumbers)]

\* the kanji-pair element pushed for one chunk, with its key
\* line-${lineIndex}-row-${i}-pair
pairOf(kanjiInRow, base, index, start) ==
    [type |-> "pair",
     key |-> <<index, start>>,
     numbered |-> rowOf(kanjiInRow, base, TRUE),
     plain |-> rowOf(kanjiInRow, base, FALSE)]

LineBreak == [type |-> "line-break", numbered |-> <<>>, plain |-> <<>>]

\* lineIndex < kanjiLines.length - 1 (0-based): a marker after every Line
\* but the last
lineBreakAfterAll(index, count) == index <= count
lineBreakAfter(index, count) == index < count

\* render: createDrillLayout is called only for a non-empty Document
startLayout(doc) ==
    [pc |-> IF Len(doc) > 0 THEN "layout" ELSE "done",
     lineIndex |-> 1, i |-> Num(0), globalIndex |-> 0, rows |-> <<>>]

\* one step of createDrillLayout: an iteration of the for loop, the end of
\* the forEach callback for a Line, or the return
layoutStep(L, doc, sizeMm) ==
    IF L.pc # "layout" THEN L
    ELSE IF L.lineIndex > Len(doc) THEN [L EXCEPT !.pc = "done"]
    ELSE LET lineKanji == doc[L.lineIndex]
             max == maxKanjiPerRow(sizeMm)
         IN  IF lessThan(L.i, Len(lineKanji))
             THEN LET kanjiInRow == slice(lineKanji, L.i, add(L.i, max))
                  IN  [L EXCEPT !.rows = Append(@, pairOf(kanjiInRow, L.globalIndex, L.lineIndex, L.i)),
                                !.globalIndex = @ + Len(kanjiInRow),
                                !.i = add(@, max)]
             ELSE [L EXCEPT !.rows = IF lineBreakAfter(L.lineIndex, Len(doc))
                                     THEN Append(@, LineBreak) ELSE @,
                            !.lineIndex = @ + 1,
                            !.i = Num(0)]

\* createDrillLayout from its call to its return
RECURSIVE runLayout(_, _, _)
runLayout(L, doc, sizeMm) ==
    IF L.pc # "layout" THEN L ELSE runLayout(layoutStep(L, doc, sizeMm), doc, sizeMm)

createDrillLayout(doc, sizeMm) == runLayout(startLayout(doc), doc, sizeMm)

----
\* The state after mounting.

\* the pipeline part of the state after mounting with the given persisted
\* settings: the effect has run once, on an empty cache
Mounted(text, dedupe, order) ==
    LET e == effect(text, dedupe, order, EmptyCache, <<>>, <<>>, <<>>)
    IN  /\ inputText = text
        /\ removeDuplicates = dedupe
        /\ sortOrder = order
        /\ strokeCache = EmptyCache
        /\ sortedKanjiLines = e.displayed
        /\ runs = e.runs
        /\ finished = e.finished
        /\ requested = {}
        /\ changes = 0

\* the layout part of the state when the render enters createDrillLayout (or
\* skips it, the Document being empty)
Rendering(doc) ==
    LET L == startLayout(doc)
    IN  /\ pc = L.pc
        /\ lineIndex = L.lineIndex
        /\ i = L.i
        /\ globalIndex = L.globalIndex
        /\ rows = L.rows

\* no KanjiDisplay is mounted and no fetch is in flight
NoCells == [p \in {} |-> <<>>]

NothingMounted ==
    /\ cells = NoCells
    /\ orphans = {}

----
\* Event handlers and completions of the pipeline.

\* a state change of the dependency list: the effect runs on the new state
Changed(text, dedupe, order) ==
    LET e == effect(text, dedupe, order, strokeCache, sortedKanjiLines, runs, <<>>)
    IN  /\ inputText' = text
        /\ removeDuplicates' = dedupe
        /\ sortOrder' = order
        /\ sortedKanjiLines' = e.displayed
        /\ runs' = e.runs
        /\ finished' = e.finished
        /\ UNCHANGED <<strokeCache, requested, kanjiSizeMm, layoutVars, displayVars>>

\* onChange of the textarea: setInputText(e.target.value)
SetInputText(text) ==
    /\ text # inputText
    /\ Changed(text, removeDuplicates, sortOrder)

\* onChange of the checkbox: setRemoveDuplicates(e.target.checked)
SetRemoveDuplicates ==
    Changed(inputText, ~removeDuplicates, sortOrder)

\* onChange of the select: setSortOrder(e.target.value)
SetSortOrder(order) ==
    /\ order # sortOrder
    /\ Changed(inputText, removeDuplicates, order)

\* the run with the lookup at position lp completed with strokeCount
resolved(run, lp, strokeCount, ok) ==
    [run EXCEPT !.counts[lp[1]][lp[2]] = strokeCount,
                !.pending = @ \ {lp},
                !.failed = IF ok THEN @ ELSE @ \cup {lp}]

\* a lookup of run k returns (ok) or fails: the count is written to the
\* cache; the run, when this was its last lookup, sorts and writes
\* sortedKanjiLines; then the render that the cache update asked for runs the
\* effect again on the current state
LookupDone(k, lp, ok) ==
    LET kanji == runs[k].lines[lp[1]][lp[2]]
        strokeCount == getStrokeCountFromKanjiVG(kanji, ok)
        run == resolved(runs[k], lp, strokeCount, ok)
        cache == cacheSet(strokeCache, kanji, strokeCount)
        over == run.pending = {}
        shown == IF over THEN sortKanji(run) ELSE sortedKanjiLines
        rest == IF over
                THEN overtake(SubSeq(runs, 1, k - 1)) \o SubSeq(runs, k + 1, Len(runs))
                ELSE [runs EXCEPT ![k] = run]
        e == rerun(inputText, removeDuplicates, sortOrder, cache, shown, rest,
                   IF over THEN <<run>> ELSE <<>>)
    IN  /\ strokeCache' = cache
        /\ requested' = requested \cup {kanji}
        /\ sortedKanjiLines' = e.displayed
        /\ runs' = e.runs
        /\ finished' = e.finished
        /\ UNCHANGED <<inputText, removeDuplicates, sortOrder, kanjiSizeMm,
                       changes, layoutVars, displayVars>>

----
\* Spec: the reactive pipeline, lookups in flight.

\* the line feed, U+6728 (4 strokes) and U+6F22 (13 strokes)
AppAlphabet == {LineFeed, 26408, 28450}

\* no character, two characters in a Line, two characters in two Lines, and
\* one character twice in a Line
AppTexts == {<<>>, <<28450, 26408>>, <<28450, LineFeed, 26408>>, <<28450, 28450>>}

Init ==
    /\ \E text \in AppTexts, dedupe \in BOOLEAN, order \in SortOrders :
          Mounted(text, dedupe, order)
    /\ kanjiSizeMm = Num(DefaultSizeMm)
    /\ Rendering(<<>>)
    /\ NothingMounted

UserChange ==
    /\ changes < MaxChanges
    /\ changes' = changes + 1
    /\ \/ \E text \in AppTexts : SetInputText(text)
       \/ SetRemoveDuplicates
       \/ \E order \in SortOrders : SetSortOrder(order)

Completion ==
    \E k \in 1..Len(runs) : \E lp \in runs[k].pending : \E ok \in BOOLEAN :
        LookupDone(k, lp, ok)

Next == UserChange \/ Completion

Spec == Init /\ [][Next]_vars

----
\* SpecPure: the pipeline on every text up to MaxTextLen, typed and deleted
\* one code unit at a time, in the modes that need no lookup.

\* the line feed, U+3400, U+4DC0 (no kanji), U+4E00, U+9FAF, U+9FB0 (no kanji)
Alphabet == {LineFeed, 13312, 19904, 19968, 40879, 40880}

PureOrders == {"none", "unicode-asc", "unicode-desc"}

InitPure ==
    /\ \E text \in SeqsUpTo(Alphabet, MaxTextLen), dedupe \in BOOLEAN, order \in PureOrders :
          Mounted(text, dedupe, order)
    /\ kanjiSizeMm = Num(DefaultSizeMm)
    /\ Rendering(<<>>)
    /\ NothingMounted

Type ==
    \E c \in Alphabet :
        /\ Len(inputText) < MaxTextLen
        /\ SetInputText(Append(inputText, c))

Delete ==
    /\ Len(inputText) > 0
    /\ SetInputText(SubSeq(inputText, 1, Len(inputText) - 1))

Toggle == SetRemoveDuplicates

Reorder == \E order \in PureOrders : SetSortOrder(order)

NextPure == (Type \/ Delete \/ Toggle \/ Reorder) /\ UNCHANGED changes

SpecPure == InitPure /\ [][NextPure]_vars

----
\* SpecSort: one mount with any persisted text and mode; the lookups of the
\* runs it starts complete, or fail, in any order.

\* the line feed, U+4E00 (1 stroke), U+6728 (4 strokes), U+6F22 (13 strokes)
SortAlphabet == {LineFeed, 19968, 26408, 28450}

InitSort ==
    /\ \E text \in SeqsUpTo(SortAlphabet, MaxSortLen), dedupe \in BOOLEAN,
          order \in SortOrders :
          Mounted(text, dedupe, order)
    /\ kanjiSizeMm = Num(DefaultSizeMm)
    /\ Rendering(<<>>)
    /\ NothingMounted

NextSort == Completion

SpecSort == InitSort /\ [][NextSort]_vars

----
\* SpecLayout: createDrillLayout step by step.

\* what the number input can be made to hold (its min and max attributes do
\* not stop typing), and what parseInt makes of the persisted string
TypedSizes == {0 - 100, 0, DefaultSizeMm, 64, 100, 191}
PersistedSizes == {Num(v) : v \in TypedSizes} \cup {NaN}

\* the chunks pushed for the Line the loop is in
RECURSIVE sinceBreak(_)
sinceBreak(rs) ==
    IF rs = <<>> \/ rs[Len(rs)].type = "line-break" THEN 0
    ELSE 1 + sinceBreak(SubSeq(rs, 1, Len(rs) - 1))

LayoutState == [pc |-> pc, lineIndex |-> lineIndex, i |-> i,
                globalIndex |-> globalIndex, rows |-> rows]

LayoutBecomes(L) ==
    /\ pc' = L.pc
    /\ lineIndex' = L.lineIndex
    /\ i' = L.i
    /\ globalIndex' = L.globalIndex
    /\ rows' = L.rows

\* one iteration of the for loop
LayoutChunk ==
    /\ pc = "layout"
    /\ lineIndex <= Len(sortedKanjiLines)
    /\ lessThan(i, Len(sortedKanjiLines[lineIndex]))
    /\ sinceBreak(rows) < Len(sortedKanjiLines[lineIndex]) + MaxSpin
    /\ LayoutBecomes(layoutStep(LayoutState, sortedKanjiLines, kanjiSizeMm))
    /\ UNCHANGED <<pipelineVars, changes, kanjiSizeMm, displayVars>>

\* the loop of a Line ends: the marker, and the next Line
LayoutLineEnd ==
    /\ pc = "layout"
    /\ lineIndex <= Len(sortedKanjiLines)
    /\ ~lessThan(i, Len(sortedKanjiLines[lineIndex]))
    /\ LayoutBecomes(layoutStep(LayoutState, sortedKanjiLines, kanjiSizeMm))
    /\ UNCHANGED <<pipelineVars, changes, kanjiSizeMm, displayVars>>

\* return rows
LayoutReturn ==
    /\ pc = "layout"
    /\ lineIndex > Len(sortedKanjiLines)
    /\ LayoutBecomes(layoutStep(LayoutState, sortedKanjiLines, kanjiSizeMm))
    /\ UNCHANGED <<pipelineVars, changes, kanjiSizeMm, displayVars>>

\* onChange of the size input: setKanjiSizeMm(Number(e.target.value)), and
\* the render it causes
SetKanjiSizeMm(v) ==
    /\ pc = "done"
    /\ Num(v) # kanjiSizeMm
    /\ kanjiSizeMm' = Num(v)
    /\ LayoutBecomes(startLayout(sortedKanjiLines))
    /\ UNCHANGED <<pipelineVars, changes, displayVars>>

InitLayout ==
    /\ \E text \in SeqsUpTo(AppAlphabet, MaxLayoutLen) : Mounted(text, FALSE, "none")
    /\ kanjiSizeMm \in PersistedSizes
    /\ Rendering(sortedKanjiLines)
    /\ NothingMounted

Resize == \E v \in TypedSizes : SetKanjiSizeMm(v)

NextLayout == LayoutChunk \/ LayoutLineEnd \/ LayoutReturn \/ Resize

SpecLayout == InitLayout /\ [][NextLayout]_vars

----
\* SpecCells: the KanjiDisplay instances of the committed layout.  Every
\* render commits the rows of createDrillLayout; an instance lives as long as
\* the keys on its path (the pair, the row, the cell) stay in the tree.

\* fetchKanjiSVG: the text of the character's file, or null
fetchKanjiSVG(kanji, ok) == IF ok THEN <<kanji>> ELSE <<>>

\* processKanjiSVG: the character's file with the numbers kept or removed
processKanjiSVG(svg, showNumbers) == <<svg[1], showNumbers>>

\* the position of a cell in the tree: the key of its pair, its row, its key
pathOf(pair, cell) ==
    <<pair.key, IF cell.showNumbers THEN "numbered" ELSE "plain", cell.key>>

cellsOf(pair) ==
    {pair.numbered[k] : k \in 1..Len(pair.numbered)}
        \cup {pair.plain[k] : k \in 1..Len(pair.plain)}

pairsOf(rs) == {rs[r] : r \in {r \in 1..Len(rs) : rs[r].type = "pair"}}

pathsOf(rs) ==
    UNION {{pathOf(pair, cell) : cell \in cellsOf(pair)} : pair \in pairsOf(rs)}

elementAt(rs, path) ==
    CHOOSE cell \in UNION {cellsOf(pair) : pair \in pairsOf(rs)} :
        \E pair \in pairsOf(rs) : cell \in cellsOf(pair) /\ pathOf(pair, cell) = path

\* a new instance: svgContent null, and the effect has called loadKanji,
\* which sets loading
mount(cell) ==
    [kanji |-> cell.kanji, showNumbers |-> cell.showNumbers,
     svgContent |-> <<>>, loading |-> TRUE,
     fetches |-> {<<cell.kanji, cell.showNumbers>>}]

\* an instance that stays: new props; the effect runs again when kanji or
\* showNumbers changed, and nothing cancels the fetch already in flight
update(instance, cell) ==
    IF cell.kanji = instance.kanji /\ cell.showNumbers = instance.showNumbers
    THEN instance
    ELSE [instance EXCEPT !.kanji = cell.kanji,
                          !.showNumbers = cell.showNumbers,
                          !.loading = TRUE,
                          !.fetches = @ \cup {<<cell.kanji, cell.showNumbers>>}]

\* reconciliation of the mounted instances with the rows of a render
reconcile(mounted, rs) ==
    [path \in pathsOf(rs) |->
        IF path \in DOMAIN mounted THEN update(mounted[path], elementAt(rs, path))
        ELSE mount(elementAt(rs, path))]

\* the fetches (character, showNumbers) left in flight by the instances a
\* render unmounts
unmounted(mounted, rs) ==
    UNION {mounted[path].fetches : path \in DOMAIN mounted \ pathsOf(rs)}

\* a render and its commit
Commit(doc, sizeMm) ==
    LET L == createDrillLayout(doc, sizeMm)
    IN  /\ LayoutBecomes(L)
        /\ cells' = reconcile(cells, L.rows)
        /\ orphans' = orphans \cup unmounted(cells, L.rows)

\* a state change of the dependency list, in a mode without lookups, and the
\* render of the Document the effect writes
Edited(text, dedupe, order) ==
    LET e == effect(text, dedupe, order, strokeCache, sortedKanjiLines, runs, <<>>)
    IN  /\ inputText' = text
        /\ removeDuplicates' = dedupe
        /\ sortOrder' = order
        /\ sortedKanjiLines' = e.displayed
        /\ runs' = e.runs
        /\ finished' = e.finished
        /\ Commit(e.displayed, kanjiSizeMm)
        /\ UNCHANGED <<strokeCache, requested, kanjiSizeMm, changes>>

\* the line feed, U+6728 and U+6F22
CellAlphabet == AppAlphabet

\* sizes of one and of nine cells per row
CellSizes == {DefaultSizeMm, 100}

TypeCell ==
    \E c \in CellAlphabet :
        /\ Len(inputText) < MaxCellLen
        /\ Edited(Append(inputText, c), removeDuplicates, sortOrder)

DeleteCell ==
    /\ Len(inputText) > 0
    /\ Edited(SubSeq(inputText, 1, Len(inputText) - 1), removeDuplicates, sortOrder)

ReorderCells ==
    \E order \in PureOrders :
        /\ order # sortOrder
        /\ Edited(inputText, removeDuplicates, order)

ResizeCells ==
    \E v \in CellSizes :
        /\ Num(v) # kanjiSizeMm
        /\ kanjiSizeMm' = Num(v)
        /\ Commit(sortedKanjiLines, Num(v))
        /\ UNCHANGED <<pipelineVars, changes>>

\* loadKanji continues after its await: setSvgContent, setLoading(false)
loaded(instance, fetch, ok) ==
    LET svg == fetchKanjiSVG(fetch[1], ok)
    IN  [instance EXCEPT !.svgContent = IF svg # <<>> THEN processKanjiSVG(svg, fetch[2])
                                        ELSE <<>>,
                         !.loading = FALSE,
                         !.fetches = @ \ {fetch}]

\* a fetch of a mounted instance resolves
FetchDone ==
    \E path \in DOMAIN cells : \E fetch \in cells[path].fetches : \E ok \in BOOLEAN :
        /\ cells' = [cells EXCEPT ![path] = loaded(@, fetch, ok)]
        /\ UNCHANGED <<pipelineVars, changes, kanjiSizeMm, layoutVars, orphans>>

\* a fetch of an unmounted instance resolves: its state updates reach no
\* mounted instance
LateResult ==
    \E late \in orphans :
        /\ orphans' = orphans \ {late}
        /\ UNCHANGED <<pipelineVars, changes, kanjiSizeMm, layoutVars, cells>>

InitCells ==
    /\ \E text \in SeqsUpTo(CellAlphabet, MaxCellLen) : Mounted(text, FALSE, "none")
    /\ kanjiSizeMm = Num(DefaultSizeMm)
    /\ LET L == createDrillLayout(sortedKanjiLines, kanjiSizeMm)
       IN  /\ pc = L.pc
           /\ lineIndex = L.lineIndex
           /\ i = L.i
           /\ globalIndex = L.globalIndex
           /\ rows = L.rows
           /\ cells = reconcile(NoCells, L.rows)
    /\ orphans = {}

NextCells == TypeCell \/ DeleteCell \/ ReorderCells \/ ResizeCells \/ FetchDone \/ LateResult

SpecCells == InitCells /\ [][NextCells]_vars

----
\* Claims on the Page Layout Engine (SpecLayout).

\* the characters of a row
kanjiOf(row) == [k \in 1..Len(row) |-> row[k].kanji]

\* the Line a row element belongs to: one more than the markers before it
lineOfRow(j) == 1 + Cardinality({m \in 1..(j - 1) : rows[m].type = "line-break"})

\* the chunks emitted for Line l, in emission order
RECURSIVE chunksUpTo(_, _)
chunksUpTo(j, l) ==
    IF j = 0 THEN <<>>
    ELSE IF rows[j].type = "pair" /\ lineOfRow(j) = l
         THEN Append(chunksUpTo(j - 1, l), kanjiOf(rows[j].numbered))
         ELSE chunksUpTo(j - 1, l)

chunksOfLine(l) == chunksUpTo(Len(rows), l)

\* length <= max as JS compares numbers
atMost(len, max) ==
    \/ max.k = "inf"
    \/ max.k = "num" /\ len <= max.v

\* C2: in every state the per-row maximum is an integer >= 1, and it is
\* floor(190 / cellSize) when the cell size is in 10..100.
C2_MaxAtLeastOne ==
    LET max == maxKanjiPerRow(kanjiSizeMm)
    IN  /\ max.k = "num"
        /\ max.v >= 1
        /\ (kanjiSizeMm.k = "num" /\ kanjiSizeMm.v \in 10..100)
              => \E q \in 1..19 : /\ max.v = q
                                  /\ q * kanjiSizeMm.v <= 190
                                  /\ 190 < (q + 1) * kanjiSizeMm.v

\* C1: no chunk is longer than the per-row maximum, and once the layout has
\* returned, the chunks of each Line, concatenated in emission order, are the
\* Line.
C1_SplitLossless ==
    /\ \A j \in 1..Len(rows) :
          rows[j].type = "pair"
             => atMost(Len(rows[j].numbered), maxKanjiPerRow(kanjiSizeMm))
    /\ pc = "done"
          => \A l \in 1..Len(sortedKanjiLines) :
                Flatten(chunksOfLine(l)) = sortedKanjiLines[l]

\* C5: every chunk is one annotated row and one plain row with the same
\* characters; once the layout has returned there are n - 1 markers for n >= 1
\* Lines, one after the chunks of every Line but the last, the chunks of a
\* Line are successive slices of it, and an empty Document gives no output.
C5_PairsAndMarkers ==
    /\ \A j \in 1..Len(rows) :
          rows[j].type = "pair"
             => /\ kanjiOf(rows[j].numbered) = kanjiOf(rows[j].plain)
                /\ \A k \in 1..Len(rows[j].numbered) : rows[j].numbered[k].showNumbers
                /\ \A k \in 1..Len(rows[j].plain) : ~rows[j].plain[k].showNumbers
    /\ pc = "done"
          => LET n == Len(sortedKanjiLines)
                 markers == {j \in 1..Len(rows) : rows[j].type = "line-break"}
             IN  /\ n = 0 => rows = <<>>
                 /\ n >= 1 => Cardinality(markers) = n - 1
                 /\ \A j \in markers :
                       /\ j > 1 /\ rows[j - 1].type = "pair"
                       /\ j < Len(rows) /\ rows[j + 1].type = "pair"
                 /\ \A l \in 1..n :
                       LET chunks == chunksOfLine(l)
                       IN  /\ Len(chunks) >= 1
                           /\ \E a \in 0..Len(sortedKanjiLines[l]) :
                                 Flatten(chunks) = SubSeq(sortedKanjiLines[l], 1, a)

\* C5 witness: the layout of two Lines has returned, one of them in two
\* non-empty chunks
C5_Witness ==
    /\ pc = "done"
    /\ Len(sortedKanjiLines) = 2
    /\ \E l \in 1..2 :
          /\ Len(chunksOfLine(l)) = 2
          /\ \A k \in 1..2 : Len(chunksOfLine(l)[k]) >= 1
    /\ Cardinality({j \in 1..Len(rows) : rows[j].type = "line-break"}) = 1

----
\* Claims on the Character Extractor (SpecPure).  With sortOrder "none" the
\* displayed Document is what extractKanjiByLines returned for the text.

\* U+4E00..U+9FAF or U+3400..U+4DBF
inCjkRanges(c) == c \in 19968..40879 \/ c \in 13312..19903

\* the input line a position of the text lies in: the line feeds before it
inputLineOf(p) == Cardinality({q \in 1..(p - 1) : inputText[q] = 10})

\* the positions of the text that hold a character of the ranges
kanjiPositions == {p \in 1..Len(inputText) : inCjkRanges(inputText[p])}

\* the k-th smallest element of a set of numbers
nth(S, k) == CHOOSE p \in S : Cardinality({q \in S : q < p}) = k - 1

\* the input lines that hold a character of the ranges, and the positions of
\* the n-th of them
kanjiInputLines == {inputLineOf(p) : p \in kanjiPositions}
positionsOfLine(n) ==
    {p \in kanjiPositions : inputLineOf(p) = nth(kanjiInputLines, n)}

\* the positions among P that hold the first occurrence of their character
firstOccurrences(P) ==
    {p \in P : \A q \in P : q < p => inputText[q] # inputText[p]}

\* the characters at the positions P, left to right
charsAt(P) == [k \in 1..Cardinality(P) |-> inputText[nth(P, k)]]

count(s, c) == Cardinality({k \in 1..Len(s) : s[k] = c})

\* C7: every character of the Document lies in one of the two ranges, no
\* Line is empty, and the Lines are the input lines that hold such a
\* character, in input order, each with its characters left to right (all of
\* them, or their first occurrences when duplicates are removed).
C7_OnlyCjkInOrder ==
    sortOrder = "none" =>
        /\ \A l \in 1..Len(sortedKanjiLines) :
              /\ Len(sortedKanjiLines[l]) > 0
              /\ \A k \in 1..Len(sortedKanjiLines[l]) :
                    inCjkRanges(sortedKanjiLines[l][k])
        /\ Len(sortedKanjiLines) = Cardinality(kanjiInputLines)
        /\ \A l \in 1..Len(sortedKanjiLines) :
              sortedKanjiLines[l] =
                  charsAt(IF removeDuplicates
                          THEN firstOccurrences(positionsOfLine(l))
                          ELSE positionsOfLine(l))
        /\ ~removeDuplicates =>
              Flatten(sortedKanjiLines) = charsAt(kanjiPositions)

\* C7 witness: a text with a character just outside the ranges and an input
\* line without any character of the ranges; one Line of two different
\* characters is extracted
C7_Witness ==
    /\ sortOrder = "none"
    /\ Len(sortedKanjiLines) = 1
    /\ Len(sortedKanjiLines[1]) = 2
    /\ sortedKanjiLines[1][1] # sortedKanjiLines[1][2]
    /\ \E p \in 1..Len(inputText) : inputText[p] \in {19904, 40880}
    /\ count(inputText, 10) = 1

\* C6: with deduplicate enabled no character repeats in a Line and the Line
\* is the first occurrences of its input line, left to right, whatever the
\* other Lines hold; with it disabled every character of the ranges is in the
\* Line as often as in its input line.
C6_DedupePerLine ==
    sortOrder = "none" =>
        \A l \in 1..Len(sortedKanjiLines) :
            LET line == sortedKanjiLines[l]
                P == positionsOfLine(l)
            IN  IF removeDuplicates
                THEN /\ \A a, b \in 1..Len(line) : a # b => line[a] # line[b]
                     /\ line = charsAt(firstOccurrences(P))
                     /\ Range(line) = {inputText[p] : p \in P}
                ELSE /\ \A c \in Range(inputText) :
                           inCjkRanges(c) =>
                               count(line, c) = Cardinality({p \in P : inputText[p] = c})
                     /\ Len(line) = Cardinality(P)

\* C6 witness: a duplicate was removed from the first Line, and the same
\* character is in the second Line too
C6_Witness ==
    /\ sortOrder = "none"
    /\ removeDuplicates
    /\ Len(sortedKanjiLines) = 2
    /\ Cardinality(positionsOfLine(1)) = 2
    /\ Len(sortedKanjiLines[1]) = 1
    /\ sortedKanjiLines[2][1] = sortedKanjiLines[1][1]

----
\* Claims on the Orderer (SpecSort).  finished holds the runs that completed
\* in the last step, in the order they wrote sortedKanjiLines.

\* what the k-th of the finished runs wrote; the last one's result is what is
\* displayed
resultOf(k) ==
    IF k = Len(finished) THEN sortedKanjiLines ELSE sortKanji(finished[k])

permOf(s, t) ==
    /\ Len(s) = Len(t)
    /\ \A c \in Range(s) \cup Range(t) : count(s, c) = count(t, c)

nondecreasing(s) == \A k \in 1..(Len(s) - 1) : s[k] <= s[k + 1]

\* C8: a run returns as many Lines as it was given, each a permutation of
\* the Line at the same place; in mode none the Lines are unchanged, under
\* unicode-asc each Line is in nondecreasing code-point order, and under
\* unicode-desc its reverse is (it is the reverse of the unicode-asc result,
\* the only nondecreasing permutation).
C8_SortPerLine ==
    \A k \in 1..Len(finished) :
        LET run == finished[k]
            out == resultOf(k)
        IN  /\ run.lines = extractKanjiByLines(inputText, removeDuplicates)
            /\ Len(out) = Len(run.lines)
            /\ \A l \in 1..Len(out) :
                  /\ permOf(out[l], run.lines[l])
                  /\ run.order = "none" => out[l] = run.lines[l]
                  /\ run.order = "unicode-asc" => nondecreasing(out[l])
                  /\ run.order = "unicode-desc" => nondecreasing(Reverse(out[l]))

\* C8 witness: a run in mode unicode-desc reordered a Line of three
\* different characters
C8_Witness ==
    /\ Len(finished) = 1
    /\ finished[1].order = "unicode-desc"
    /\ Len(sortedKanjiLines) = 1
    /\ Cardinality(Range(sortedKanjiLines[1])) = 3
    /\ sortedKanjiLines[1] # finished[1].lines

\* the ways to put the positions 1..n in a sequence
perms(n) == {f \in [1..n -> 1..n] : \A a, b \in 1..n : a # b => f[a] # f[b]}

\* out is line reordered so that the counts obtained for the occurrences do
\* not decrease (ascending) or do not increase (descending)
orderedBy(out, line, counts, order) ==
    \E f \in perms(Len(line)) :
        /\ Len(out) = Len(line)
        /\ \A k \in 1..Len(line) : out[k] = line[f[k]]
        /\ \A k \in 1..(Len(line) - 1) :
              IF order = "stroke-asc" THEN counts[f[k]] <= counts[f[k + 1]]
              ELSE counts[f[k]] >= counts[f[k + 1]]

\* C9: a run in a stroke mode that completes has the count 10 for every
\* occurrence whose lookup failed, and writes a Document with every Line and
\* every character of the extracted one, each Line ordered by the counts
\* obtained; a run in flight always has a lookup left that can complete.
C9_FailureAbsorbed ==
    /\ \A k \in 1..Len(runs) : runs[k].pending # {}
    /\ \A k \in 1..Len(finished) :
          LET run == finished[k]
              out == resultOf(k)
          IN  isStroke(run.order) =>
                /\ run.pending = {}
                /\ \A lp \in run.failed : run.counts[lp[1]][lp[2]] = 10
                /\ Len(out) = Len(run.lines)
                /\ \A l \in 1..Len(out) :
                      /\ permOf(out[l], run.lines[l])
                      /\ orderedBy(out[l], run.lines[l], run.counts[l], run.order)

\* C9 witness: a run completed after one of its lookups failed and another
\* returned, and the Line they are in was reordered
C9_Witness ==
    \E k \in 1..Len(finished) :
        LET run == finished[k]
        IN  /\ isStroke(run.order)
            /\ \E l \in 1..Len(run.lines) :
                  /\ \E p \in 1..Len(run.lines[l]) : <<l, p>> \in run.failed
                  /\ \E p \in 1..Len(run.lines[l]) :
                        /\ <<l, p>> \notin run.failed
                        /\ run.counts[l][p] = strokesInKanjiVG(run.lines[l][p])
                  /\ resultOf(k)[l] # run.lines[l]

----
\* Claims on the cache and the reactive effect (Spec).

\* C3: a step never removes a key of the cache and never changes the count
\* of a key already in it.
C3_CacheWriteOnce ==
    [][\A c \in DOMAIN strokeCache :
          /\ c \in DOMAIN strokeCache'
          /\ strokeCache'[c] = strokeCache[c]]_vars

\* C10: every character whose lookup has completed has an entry in the
\* cache, whatever the order of the completions.
C10_NoLostUpdate ==
    requested \subseteq DOMAIN strokeCache

\* C10 witness: the lookups of two characters, issued by overlapping runs
\* after a change by the user, have all completed
C10_Witness ==
    /\ changes = 1
    /\ runs = <<>>
    /\ Cardinality(requested) = 2
    /\ Len(finished) = 2

\* no lookup is outstanding
quiescent == runs = <<>>

\* C4: once every issued lookup has completed, the displayed Document is the
\* current text extracted with the current deduplicate flag and ordered in
\* the current mode (by the counts of the cache in a stroke mode).
C4_DisplayedIsCurrent ==
    quiescent =>
        LET run == startRun(inputText, removeDuplicates, sortOrder, strokeCache)
        IN  /\ run.pending = {}
            /\ sortedKanjiLines = sortKanji(run)

\* C4 witness: the user changed the settings while lookups were in flight;
\* the last of them has completed, the superseded run wrote its result and
\* the run of the current state wrote after it
C4_Witness ==
    /\ quiescent
    /\ changes = 1
    /\ Len(finished) = 2
    /\ sortKanji(finished[1]) # sortedKanjiLines

----
\* Claims on the KanjiDisplay instances (SpecCells).

\* the instance renders an illustration: svgContent is not null
shown(instance) == instance.svgContent # <<>>

\* the characters the committed layout asks illustrations for
requestedKanji == {cell.kanji : cell \in UNION {cellsOf(pair) : pair \in pairsOf(rows)}}

\* C11: in every reachable state, whatever the order in which the fetches
\* resolve, every cell of the committed layout is a mounted instance, and an
\* illustration it shows is the one fetched for the cell's current character
\* and showNumbers flag.
C11_LateResultDiscarded ==
    /\ DOMAIN cells = pathsOf(rows)
    /\ \A pair \in pairsOf(rows) : \A cell \in cellsOf(pair) :
          LET instance == cells[pathOf(pair, cell)]
          IN  shown(instance) =>
                  instance.svgContent = processKanjiSVG(<<cell.kanji>>, cell.showNumbers)

\* a fetch is still in flight for a character that no cell asks for any more,
\* and a cell shows the illustration of its own, other character
C11_Witness ==
    \E late \in orphans :
        /\ late[1] \notin requestedKanji
        /\ \E pair \in pairsOf(rows) : \E cell \in cellsOf(pair) :
              /\ cell.showNumbers = late[2]
              /\ shown(cells[pathOf(pair, cell)])

----
\* Idempotence of the pipeline (SpecSort).

\* C12: two applications of the pipeline to identical text, deduplicate flag,
\* sort mode and cell size yield the identical Document, in every sort mode:
\* when a run completes right after another one has, nothing but lookup
\* outcomes and the cache having changed in between, it writes the Document
\* that is displayed.
C12_Idempotent ==
    [][(/\ finished # <<>>
        /\ finished' # <<>>
        /\ UNCHANGED <<inputText, removeDuplicates, sortOrder, kanjiSizeMm>>)
          => \A k \in 1..Len(finished') : sortKanji(finished'[k]) = sortedKanjiLines]_vars

----
\* Termination of createDrillLayout (SpecLayout).

\* C13: createDrillLayout terminates for every non-empty Document and every
\* cell size the state can hold: maxKanjiPerRow does not change during a
\* call, so the loop of a Line ends exactly when every iteration that is
\* followed by another one has moved i forward.
C13_Terminates ==
    [][(/\ pc = "layout"
        /\ pc' = "layout"
        /\ lineIndex' = lineIndex
        /\ rows' # rows
        /\ lessThan(i', Len(sortedKanjiLines[lineIndex])))
          => i'.v > i.v]_vars

----
\* Order of the writes of overlapping runs (Spec).

\* C14: the results of overlapping runs are written in start order: a run
\* never writes sortedKanjiLines after a run that was started later than it
\* has written.
C14_StartOrder ==
    \A k \in 1..Len(finished) : ~finished[k].overtaken

====
